---- MODULE Spec2Model ----
(***************************************************************************)
(* The STOMP-subset relay of src/server-native-ws.js: the subscription     *)
(* registry (subscriptionsByConn, subscribersByDestination), the broadcast *)
(* fan-out and the per-connection frame dispatch, in its two transport     *)
(* bindings (native WebSocket, lines 1-282; SockJS, lines 284-574).        *)
(*                                                                         *)
(* A JS Map is modelled as a sequence of <<key, value>> pairs and a JS Set *)
(* as a sequence without duplicates, both in insertion order, which is the *)
(* order in which the code iterates them.                                  *)
(***************************************************************************)
EXTENDS Integers, Sequences, FiniteSets, TLC

\* ------------------------------------------------------------------ bounds
\* Total number of frames dispatched to handleFrame in one run.
MaxEvents == 3

\* Total number of characters of the command, header key, header value and
\* body of a frame given to the encoder.
MaxChars == 3

\* The connections (opaque handles), and the header values clients may send.
Conns == {"A", "B"}
SubIds == {"s1", "s2"}
Dests == {"d1", "d2"}
Bodies == {"m1", "m2"}

\* The value of a header the frame does not carry (JS undefined).
undefined == "<undefined>"

\* Mutant of Truthy: only a missing header is rejected (id !== undefined), an
\* empty one is accepted.
TruthyNotUndefined(v) == v # undefined

\* JS truthiness of a header value: undefined and '' are falsy.
Truthy(v) == v # undefined /\ v # ""

\* --------------------------------------------------------- JS Map and Set
MapKeys(m) == {m[i][1] : i \in DOMAIN m}

MapHas(m, k) == k \in MapKeys(m)

\* Map.get: undefined when the key is absent.
MapGet(m, k) ==
    IF MapHas(m, k) THEN m[CHOOSE i \in DOMAIN m : m[i][1] = k][2] ELSE undefined

\* Map.set: an existing key keeps its position, a new key goes last.
MapSet(m, k, v) ==
    IF MapHas(m, k)
    THEN [i \in DOMAIN m |-> IF m[i][1] = k THEN <<k, v>> ELSE m[i]]
    ELSE Append(m, <<k, v>>)

MapDelete(m, k) == SelectSeq(m, LAMBDA e : e[1] # k)

SetElems(s) == {s[i] : i \in DOMAIN s}

SetAdd(s, x) == IF x \in SetElems(s) THEN s ELSE Append(s, x)

SetDelete(s, x) == SelectSeq(s, LAMBDA e : e # x)

\* -------------------------------------------------------------- the state
VARIABLES
    binding,                   \* "native" or "sockjs": which program runs
    transport,                 \* per connection: the transport's life cycle
    subscriptionsByConn,       \* Map conn -> Map subId -> destination
    subscribersByDestination,  \* Map destination -> Map conn -> Set subId
    sent,                      \* the transport send calls made so far
    uuidCount,                 \* number of randomUUID() calls made so far
    dispatched,                \* number of frames handed to handleFrame
    disconnectPhase            \* per connection, history: "none" until its
                               \* DISCONNECT is dispatched, then "disconnected",
                               \* and "resubscribed" once a SUBSCRIBE of the
                               \* connection is registered after that DISCONNECT
                   ,
    everSubscribed,            \* history: the <<connection, subId, destination>>
                               \* of the SUBSCRIBE frames registered so far
    toEncode,                  \* the frames a client encodes into one delivery,
                               \* and the text it puts after each of them
    payload,                   \* the text of that delivery
    parsed,                    \* the frames parseFrames made of the delivery
    codecStage                 \* "off", or how far the delivery has come:
                               \* "input", "encoded", "handled"

vars == <<binding, transport, subscriptionsByConn, subscribersByDestination,
          sent, uuidCount, dispatched, disconnectPhase, everSubscribed,
          toEncode, payload, parsed, codecStage>>

codecVars == <<toEncode, payload, parsed, codecStage>>

\* The program state as one record, so that the functions of the source are
\* operators from state to state.
State ==
    [binding |-> binding, transport |-> transport,
     subscriptionsByConn |-> subscriptionsByConn,
     subscribersByDestination |-> subscribersByDestination,
     sent |-> sent, uuidCount |-> uuidCount, dispatched |-> dispatched]

\* ws.readyState === WebSocket.OPEN
IsOpen(st, ws) == st.transport[ws] = "open"

\* ------------------------------------------------------------ the registry
ensureDestinationEntry(sbd, destination) ==
    IF ~MapHas(sbd, destination) THEN MapSet(sbd, destination, <<>>) ELSE sbd

addSubscription(st, ws, subId, destination) ==
    LET sbc1 == IF ~MapHas(st.subscriptionsByConn, ws)
                THEN MapSet(st.subscriptionsByConn, ws, <<>>)
                ELSE st.subscriptionsByConn
        sbc2 == MapSet(sbc1, ws, MapSet(MapGet(sbc1, ws), subId, destination))
        sbd1 == ensureDestinationEntry(st.subscribersByDestination, destination)
        ds0  == MapGet(sbd1, destination)
        ds1  == IF ~MapHas(ds0, ws) THEN MapSet(ds0, ws, <<>>) ELSE ds0
        ds2  == MapSet(ds1, ws, SetAdd(MapGet(ds1, ws), subId))
    IN  [st EXCEPT !.subscriptionsByConn = sbc2,
                   !.subscribersByDestination = MapSet(sbd1, destination, ds2)]

\* Mutant of removeSubscription: the destination entry is kept when its last
\* subscriber is removed.
removeSubscriptionKeepsDestination(st, ws, subId) ==
    IF ~MapHas(st.subscriptionsByConn, ws) THEN st
    ELSE
    LET connSubs == MapGet(st.subscriptionsByConn, ws)
        destination == MapGet(connSubs, subId)
    IN
    IF ~Truthy(destination) THEN st
    ELSE
    LET connSubs1 == MapDelete(connSubs, subId)
        sbc1 == IF Len(connSubs1) = 0
                THEN MapDelete(st.subscriptionsByConn, ws)
                ELSE MapSet(st.subscriptionsByConn, ws, connSubs1)
        st1 == [st EXCEPT !.subscriptionsByConn = sbc1]
        sbd == st.subscribersByDestination
    IN
    IF ~MapHas(sbd, destination) THEN st1
    ELSE
    LET ds0 == MapGet(sbd, destination)
    IN
    IF ~MapHas(ds0, ws) THEN st1
    ELSE
    LET subSet == SetDelete(MapGet(ds0, ws), subId)
        ds1 == IF Len(subSet) = 0 THEN MapDelete(ds0, ws)
               ELSE MapSet(ds0, ws, subSet)
    IN  [st1 EXCEPT !.subscribersByDestination = MapSet(sbd, destination, ds1)]

removeSubscription(st, ws, subId) ==
    IF ~MapHas(st.subscriptionsByConn, ws) THEN st
    ELSE
    LET connSubs == MapGet(st.subscriptionsByConn, ws)
        destination == MapGet(connSubs, subId)
    IN
    IF ~Truthy(destination) THEN st
    ELSE
    LET connSubs1 == MapDelete(connSubs, subId)
        sbc1 == IF Len(connSubs1) = 0
                THEN MapDelete(st.subscriptionsByConn, ws)
                ELSE MapSet(st.subscriptionsByConn, ws, connSubs1)
        st1 == [st EXCEPT !.subscriptionsByConn = sbc1]
        sbd == st.subscribersByDestination
    IN
    IF ~MapHas(sbd, destination) THEN st1
    ELSE
    LET ds0 == MapGet(sbd, destination)
    IN
    IF ~MapHas(ds0, ws) THEN st1
    ELSE
    LET subSet == SetDelete(MapGet(ds0, ws), subId)
        ds1 == IF Len(subSet) = 0 THEN MapDelete(ds0, ws)
               ELSE MapSet(ds0, ws, subSet)
        sbd1 == IF Len(ds1) = 0 THEN MapDelete(sbd, destination)
                ELSE MapSet(sbd, destination, ds1)
    IN  [st1 EXCEPT !.subscribersByDestination = sbd1]

\* Mutant of cleanupEntry: the destination is deleted with all its subscribers.
cleanupEntryDropsDestination(sbd, ws, subId, destination) ==
    MapDelete(sbd, destination)

\* One pass of the loop of cleanupConnection, for the entry [subId, destination].
cleanupEntry(sbd, ws, subId, destination) ==
    IF ~MapHas(sbd, destination) THEN sbd
    ELSE
    LET ds0 == MapGet(sbd, destination)
        ds1 == IF MapHas(ds0, ws)
               THEN LET subSet == SetDelete(MapGet(ds0, ws), subId)
                    IN  IF Len(subSet) = 0 THEN MapDelete(ds0, ws)
                        ELSE MapSet(ds0, ws, subSet)
               ELSE ds0
    IN  IF Len(ds1) = 0 THEN MapDelete(sbd, destination)
        ELSE MapSet(sbd, destination, ds1)

RECURSIVE cleanupLoop(_, _, _, _)
cleanupLoop(sbd, ws, connSubs, i) ==
    IF i > Len(connSubs) THEN sbd
    ELSE cleanupLoop(cleanupEntry(sbd, ws, connSubs[i][1], connSubs[i][2]),
                     ws, connSubs, i + 1)

\* Mutant of cleanupConnection: the connection's entry in the connection
\* index is not deleted at the end.
cleanupConnectionKeepsKey(st, ws) ==
    IF ~MapHas(st.subscriptionsByConn, ws) THEN st
    ELSE [st EXCEPT
            !.subscribersByDestination =
                cleanupLoop(st.subscribersByDestination, ws,
                            MapGet(st.subscriptionsByConn, ws), 1)]

cleanupConnection(st, ws) ==
    IF ~MapHas(st.subscriptionsByConn, ws) THEN st
    ELSE [st EXCEPT
            !.subscribersByDestination =
                cleanupLoop(st.subscribersByDestination, ws,
                            MapGet(st.subscriptionsByConn, ws), 1),
            !.subscriptionsByConn = MapDelete(st.subscriptionsByConn, ws)]

\* ------------------------------------------------------------- the output
\* One call of the transport's send: the frame written, the connection it is
\* written to, the number of the dispatched frame that caused it, and whether
\* the transport was open when send was called.
SendCall(st, ws, command, headers, body) ==
    [to |-> ws, command |-> command, headers |-> headers,
     body |-> IF Truthy(body) THEN body ELSE "",
     ev |-> st.dispatched, open |-> IsOpen(st, ws)]

\* Mutant of sendFrame: the frame is queued ahead of the frames already sent.
sendFramePrepends(st, ws, command, headers, body) ==
    IF st.binding = "native" /\ ~IsOpen(st, ws) THEN st
    ELSE [st EXCEPT !.sent = <<SendCall(st, ws, command, headers, body)>> \o @]

\* The native binding writes only while readyState is OPEN; the SockJS
\* binding calls conn.send unconditionally.
sendFrame(st, ws, command, headers, body) ==
    IF st.binding = "native" /\ ~IsOpen(st, ws) THEN st
    ELSE [st EXCEPT !.sent = Append(@, SendCall(st, ws, command, headers, body))]

\* randomUUID(): the n-th call returns an identifier no other call returns.
randomUUID(n) == "uuid-" \o ToString(n)

RECURSIVE broadcastSubIds(_, _, _, _, _, _)
RECURSIVE broadcastSubIdsSharedId(_, _, _, _, _, _)

\* Mutant of broadcastSubIds: the loop ends after the first subId.
broadcastFirstSubId(st, ws, subIds, destination, body, j) ==
    IF j > Len(subIds) THEN st
    ELSE sendFrame([st EXCEPT !.uuidCount = @ + 1], ws, "MESSAGE",
                   << <<"subscription", subIds[j]>>,
                      <<"destination", destination>>,
                      <<"message-id", randomUUID(st.uuidCount + 1)>> >>, body)

\* Mutant of broadcastSubIds: randomUUID() is called once, before the loops,
\* and every frame carries that id.
broadcastSubIdsSharedId(st, ws, subIds, destination, body, j) ==
    IF j > Len(subIds) THEN st
    ELSE broadcastSubIdsSharedId(
             sendFrame(st, ws, "MESSAGE",
                       << <<"subscription", subIds[j]>>,
                          <<"destination", destination>>,
                          <<"message-id", randomUUID(0)>> >>, body),
             ws, subIds, destination, body, j + 1)

\* The inner loop of broadcast: one MESSAGE per subId of the connection.
broadcastSubIds(st, ws, subIds, destination, body, j) ==
    IF j > Len(subIds) THEN st
    ELSE
    LET n   == st.uuidCount + 1
        st1 == sendFrame([st EXCEPT !.uuidCount = n], ws, "MESSAGE",
                         << <<"subscription", subIds[j]>>,
                            <<"destination", destination>>,
                            <<"message-id", randomUUID(n)>> >>, body)
    IN  broadcastSubIds(st1, ws, subIds, destination, body, j + 1)

\* The outer loop of broadcast, over the entries [ws, subIds] of the
\* destination; only the native binding tests readyState here.
RECURSIVE broadcastLoop(_, _, _, _, _)
broadcastLoop(st, entries, destination, body, i) ==
    IF i > Len(entries) THEN st
    ELSE
    LET ws  == entries[i][1]
        st1 == IF st.binding = "native" /\ ~IsOpen(st, ws) THEN st
               ELSE broadcastSubIds(st, ws, entries[i][2], destination, body, 1)
    IN  broadcastLoop(st1, entries, destination, body, i + 1)

\* Mutant of broadcast: the destination entry is looked up with
\* ensureDestinationEntry, which creates it.
broadcastEnsuresEntry(st, destination, body) ==
    LET sbd == ensureDestinationEntry(st.subscribersByDestination, destination)
    IN  broadcastLoop([st EXCEPT !.subscribersByDestination = sbd],
                      MapGet(sbd, destination), destination, body, 1)

broadcast(st, destination, body) ==
    IF ~MapHas(st.subscribersByDestination, destination) THEN st
    ELSE broadcastLoop(st, MapGet(st.subscribersByDestination, destination),
                       destination, body, 1)

\* ws.close(): an open transport starts its closing handshake; the close
\* event comes later.
close(st, ws) ==
    IF IsOpen(st, ws) THEN [st EXCEPT !.transport[ws] = "closing_local"] ELSE st

\* ----------------------------------------------------------- the dispatch
\* headers.id, headers.destination: undefined when the frame lacks the header.
Header(frame, key) == MapGet(frame.headers, key)

\* case 'CONNECT' / 'STOMP'
onConnect(st, ws) ==
    sendFrame(st, ws, "CONNECTED", << <<"version", "1.2">> >>, "")

\* Mutant of onSubscribe: a registered SUBSCRIBE is acknowledged with a
\* RECEIPT frame.
onSubscribeAcks(st, ws, frame) ==
    IF ~Truthy(Header(frame, "id")) \/ ~Truthy(Header(frame, "destination"))
    THEN sendFrame(st, ws, "ERROR",
                   << <<"message", "Subscription requires id and destination">> >>,
                   "Missing id or destination header")
    ELSE sendFrame(addSubscription(st, ws, Header(frame, "id"),
                                   Header(frame, "destination")),
                   ws, "RECEIPT", <<>>, "")

\* case 'SUBSCRIBE'
onSubscribe(st, ws, frame) ==
    IF ~Truthy(Header(frame, "id")) \/ ~Truthy(Header(frame, "destination"))
    THEN sendFrame(st, ws, "ERROR",
                   << <<"message", "Subscription requires id and destination">> >>,
                   "Missing id or destination header")
    ELSE addSubscription(st, ws, Header(frame, "id"), Header(frame, "destination"))

\* Mutant of onUnsubscribe: a missing id is reported with an ERROR frame, as
\* SUBSCRIBE does.
onUnsubscribeReportsMissingId(st, ws, frame) ==
    IF Truthy(Header(frame, "id"))
    THEN removeSubscription(st, ws, Header(frame, "id"))
    ELSE sendFrame(st, ws, "ERROR", << <<"message", "Missing id">> >>, "")

\* case 'UNSUBSCRIBE'
onUnsubscribe(st, ws, frame) ==
    IF Truthy(Header(frame, "id"))
    THEN removeSubscription(st, ws, Header(frame, "id"))
    ELSE st

\* Mutant of onSend: a SEND without destination goes to a default destination.
onSendFallsBackToDefault(st, frame) ==
    IF ~Truthy(Header(frame, "destination")) THEN broadcast(st, "d1", frame.body)
    ELSE broadcast(st, Header(frame, "destination"), frame.body)

\* case 'SEND'
onSend(st, frame) ==
    IF ~Truthy(Header(frame, "destination")) THEN st
    ELSE broadcast(st, Header(frame, "destination"), frame.body)

\* Mutant of onDisconnect: the transport is closed without cleanupConnection.
onDisconnectNoCleanup(st, ws) == close(st, ws)

\* case 'DISCONNECT'
onDisconnect(st, ws) == close(cleanupConnection(st, ws), ws)

handleFrame(st, ws, frame) ==
    CASE frame.command \in {"CONNECT", "STOMP"} -> onConnect(st, ws)
      [] frame.command = "SUBSCRIBE" -> onSubscribe(st, ws, frame)
      [] frame.command = "UNSUBSCRIBE" -> onUnsubscribe(st, ws, frame)
      [] frame.command = "SEND" -> onSend(st, frame)
      [] frame.command = "DISCONNECT" -> onDisconnect(st, ws)
      [] OTHER -> st

\* -------------------------------------------------------------- the codec
\* A text (a JS string on the wire) is a sequence of characters. A character
\* is one of the four the codec tests for, or a word that contains none of
\* them ("a", "SUBSCRIBE", "__proto__"), read as one character.
NL == "\n"
NUL == "\\0"
COLON == ":"
SP == " "

\* The characters String.prototype.trim removes.
Whitespace == {SP, NL}

\* String.prototype.split(separator), for a non-empty separator: the pieces
\* between the matches of the separator, found from left to right.
RECURSIVE splitFrom(_, _, _, _)
splitFrom(s, sep, i, start) ==
    IF i + Len(sep) - 1 > Len(s) THEN <<SubSeq(s, start, Len(s))>>
    ELSE IF SubSeq(s, i, i + Len(sep) - 1) = sep
         THEN <<SubSeq(s, start, i - 1)>>
                 \o splitFrom(s, sep, i + Len(sep), i + Len(sep))
         ELSE splitFrom(s, sep, i + 1, start)

split(s, sep) == splitFrom(s, sep, 1, 1)

\* Array.prototype.join(separator)
RECURSIVE join(_, _)
join(parts, sep) ==
    IF parts = <<>> THEN <<>>
    ELSE IF Len(parts) = 1 THEN parts[1]
         ELSE parts[1] \o sep \o join(Tail(parts), sep)

\* String.prototype.trim()
RECURSIVE trim(_)
trim(s) ==
    IF s = <<>> THEN s
    ELSE IF s[1] \in Whitespace THEN trim(Tail(s))
         ELSE IF s[Len(s)] \in Whitespace THEN trim(SubSeq(s, 1, Len(s) - 1))
              ELSE s

\* Mutant of indexOf: the position of the last occurrence (lastIndexOf).
lastIndexOf(s, ch) ==
    IF \E i \in DOMAIN s : s[i] = ch
    THEN CHOOSE i \in DOMAIN s : s[i] = ch /\ \A j \in DOMAIN s : s[j] = ch => j <= i
    ELSE 0

\* String.prototype.indexOf(ch), counting positions from 1: 0 when ch does not
\* occur (JS: -1).
indexOf(s, ch) ==
    IF \E i \in DOMAIN s : s[i] = ch
    THEN CHOOSE i \in DOMAIN s : s[i] = ch /\ \A j \in DOMAIN s : s[j] = ch => i <= j
    ELSE 0

\* headers[key] = value on the object literal {}: the key __proto__ is the
\* prototype setter, which ignores a string, so that no property is created.
setProperty(headers, key, value) ==
    IF key = <<"__proto__">> THEN headers ELSE MapSet(headers, key, value)

\* The loop of parseFrames over the header lines (lines 168-174).
RECURSIVE parseHeaderLines(_, _, _)
parseHeaderLines(headerLines, i, headers) ==
    IF i > Len(headerLines) THEN headers
    ELSE
    LET line == headerLines[i]
        separatorIndex == indexOf(line, COLON)
    IN  IF separatorIndex = 0 THEN parseHeaderLines(headerLines, i + 1, headers)
        ELSE parseHeaderLines(headerLines, i + 1,
                 setProperty(headers,
                             trim(SubSeq(line, 1, separatorIndex - 1)),
                             trim(SubSeq(line, separatorIndex + 1, Len(line)))))

\* One pass of the loop of parseFrames over rawFrames (lines 156-178): the
\* frames the segment raw adds, none or one.
parseRaw(raw) ==
    IF raw = <<>> THEN <<>>
    ELSE IF raw = <<NL>> THEN <<>>
    ELSE
    LET parts == split(raw, <<NL, NL>>)
        headerLines == SelectSeq(split(parts[1], <<NL>>), LAMBDA l : l # <<>>)
    IN
    IF Len(headerLines) = 0 THEN <<>>
    ELSE IF trim(headerLines[1]) = <<>> THEN <<>>
    ELSE << [command |-> trim(headerLines[1]),
             headers |-> parseHeaderLines(Tail(headerLines), 1, <<>>),
             body |-> join(Tail(parts), <<NL, NL>>)] >>

\* Mutant of parseFramesLoop: each frame is put in front of the frames parsed
\* before it (unshift for push).
RECURSIVE parseFramesLoopUnshift(_, _)
parseFramesLoopUnshift(rawFrames, i) ==
    IF i > Len(rawFrames) THEN <<>>
    ELSE parseFramesLoopUnshift(rawFrames, i + 1) \o parseRaw(rawFrames[i])

RECURSIVE parseFramesLoop(_, _)
parseFramesLoop(rawFrames, i) ==
    IF i > Len(rawFrames) THEN <<>>
    ELSE parseRaw(rawFrames[i]) \o parseFramesLoop(rawFrames, i + 1)

parseFrames(chunk) ==
    IF chunk = <<>> THEN <<>>
    ELSE parseFramesLoop(split(chunk, <<NUL>>), 1)

\* The loop of sendFrame over Object.entries(headers) (lines 57-59).
RECURSIVE headerText(_, _)
headerText(headers, i) ==
    IF i > Len(headers) THEN <<>>
    ELSE headers[i][1] \o <<COLON>> \o headers[i][2] \o <<NL>>
            \o headerText(headers, i + 1)

\* The text sendFrame builds (lines 56-62).
frameText(command, headers, body) ==
    command \o <<NL>> \o headerText(headers, 1) \o <<NL>> \o body \o <<NUL>>

\* ------------------------------------------------------------- the inputs
Hdr(key, value) == IF value = undefined THEN <<>> ELSE << <<key, value>> >>

Frame(command, headers, body) ==
    [command |-> command, headers |-> headers, body |-> body]

IdValues == SubIds \cup {"", undefined}
DestValues == Dests \cup {"", undefined}

\* The frames parseFrames can hand to handleFrame, up to the headers and
\* commands handleFrame reads ("ACK" stands for any unrecognized command).
Frames ==
    {Frame(c, <<>>, "") : c \in {"CONNECT", "STOMP", "DISCONNECT", "ACK"}}
    \cup {Frame("SUBSCRIBE", Hdr("id", i) \o Hdr("destination", d), "") :
            i \in IdValues, d \in DestValues}
    \cup {Frame("UNSUBSCRIBE", Hdr("id", i), "") : i \in IdValues}
    \cup {Frame("SEND", Hdr("destination", d), b) : d \in DestValues, b \in Bodies}

\* ------------------------------------------------------------ the actions
InitBinding(b) ==
    /\ binding = b
    /\ transport = [c \in Conns |-> "idle"]
    /\ subscriptionsByConn = <<>>
    /\ subscribersByDestination = <<>>
    /\ sent = <<>>
    /\ uuidCount = 0
    /\ dispatched = 0
    /\ disconnectPhase = [c \in Conns |-> "none"]
    /\ everSubscribed = {}

\* No delivery is followed through the codec.
CodecOff ==
    /\ toEncode = [frames |-> <<>>, gaps |-> <<>>]
    /\ payload = <<>>
    /\ parsed = <<>>
    /\ codecStage = "off"

Init == InitBinding("native") /\ CodecOff

InitSockJS == InitBinding("sockjs") /\ CodecOff

\* wss.on('connection') / registerConnection: a new connection is open; the
\* SockJS binding also enters it in the connection index with an empty Map.
Connection(c) ==
    /\ transport[c] = "idle"
    /\ transport' = [transport EXCEPT ![c] = "open"]
    /\ subscriptionsByConn' =
          IF binding = "sockjs" THEN MapSet(subscriptionsByConn, c, <<>>)
          ELSE subscriptionsByConn
    /\ UNCHANGED <<binding, subscribersByDestination, sent, uuidCount,
                   dispatched, disconnectPhase, everSubscribed>>
    /\ UNCHANGED codecVars

\* The history variables after connection c dispatches frame.
PhaseAfter(phase, frame) ==
    IF frame.command = "DISCONNECT" THEN "disconnected"
    ELSE IF /\ frame.command = "SUBSCRIBE"
            /\ Truthy(Header(frame, "id"))
            /\ Truthy(Header(frame, "destination"))
            /\ phase = "disconnected"
         THEN "resubscribed"
         ELSE phase

SubscribedAfter(subscribed, c, frame) ==
    IF /\ frame.command = "SUBSCRIBE"
       /\ Truthy(Header(frame, "id"))
       /\ Truthy(Header(frame, "destination"))
    THEN subscribed \cup {<<c, Header(frame, "id"), Header(frame, "destination")>>}
    ELSE subscribed

\* The message callback of connection c can run: its transport delivers data,
\* and the run has frames left to dispatch.
CanDispatch(c) ==
    /\ transport[c] \in {"open", "closing_local"}
    /\ dispatched < MaxEvents

\* ws.on('message') / transport.onData: the callback runs handleFrame on each
\* frame of the delivery in turn. One step is one iteration of that loop; a
\* delivery of several frames is that many Message steps of the connection
\* in a row, and a step of another action between two of them is what the
\* program does when the remaining frames arrive in a later delivery. The
\* loop goes on after a DISCONNECT of the same delivery, whose ws.close()
\* has left the transport closing.
Message(c, frame) ==
    /\ CanDispatch(c)
    /\ \E st \in {handleFrame([State EXCEPT !.dispatched = @ + 1], c, frame)} :
           /\ transport' = st.transport
           /\ subscriptionsByConn' = st.subscriptionsByConn
           /\ subscribersByDestination' = st.subscribersByDestination
           /\ sent' = st.sent
           /\ uuidCount' = st.uuidCount
           /\ dispatched' = st.dispatched
    /\ disconnectPhase' = [disconnectPhase EXCEPT ![c] = PhaseAfter(@, frame)]
    /\ everSubscribed' = SubscribedAfter(everSubscribed, c, frame)
    /\ UNCHANGED binding
    /\ UNCHANGED codecVars

\* The peer or the network ends the transport: readyState leaves OPEN, the
\* close event has not been emitted yet.
TransportEnds(c) ==
    /\ transport[c] = "open"
    /\ transport' = [transport EXCEPT ![c] = "closing_remote"]
    /\ UNCHANGED <<binding, subscriptionsByConn, subscribersByDestination, sent,
                   uuidCount, dispatched, disconnectPhase, everSubscribed>>
    /\ UNCHANGED codecVars

\* ws.on('close') / transport.onClose: the close event runs cleanupConnection.
Close(c) ==
    /\ transport[c] \in {"closing_local", "closing_remote"}
    /\ \E st \in {cleanupConnection([State EXCEPT !.transport[c] = "closed"], c)} :
           /\ transport' = st.transport
           /\ subscriptionsByConn' = st.subscriptionsByConn
           /\ subscribersByDestination' = st.subscribersByDestination
    /\ UNCHANGED <<binding, sent, uuidCount, dispatched, disconnectPhase,
                   everSubscribed>>
    /\ UNCHANGED codecVars

Next ==
    \/ \E c \in Conns : Connection(c)
    \/ \E c \in Conns, frame \in Frames : Message(c, frame)
    \/ \E c \in Conns : TransportEnds(c)
    \/ \E c \in Conns : Close(c)

Spec == Init /\ [][Next]_vars

SpecSockJS == InitSockJS /\ [][Next]_vars

\* ------------------------------------------------ a delivery through the codec
\* The characters of the texts given to the encoder.
Chars == {"a", COLON, SP, NL, NUL, "__proto__"}

\* The frames with no header or one header whose command, key, value and
\* body are the consecutive pieces of a text of at most MaxChars characters.
\* A delivery of the one frame f.
OneFrame(f) == [frames |-> <<f>>, gaps |-> << <<>> >>]

IsBudgetInput(input) ==
    \E n \in 0..MaxChars : \E t \in [1..n -> Chars] : \E i \in 0..n :
        \/ input = OneFrame([command |-> SubSeq(t, 1, i), headers |-> <<>>,
                             body |-> SubSeq(t, i + 1, n)])
        \/ \E j \in i..n : \E k \in j..n :
              input = OneFrame(
                  [command |-> SubSeq(t, 1, i),
                   headers |-> << <<SubSeq(t, i + 1, j), SubSeq(t, j + 1, k)>> >>,
                   body |-> SubSeq(t, k + 1, n)])

\* Frames with two headers of distinct keys.
TwoHeaderFrames ==
    {[command |-> <<"a">>, headers |-> << <<k1, v1>>, <<k2, v2>> >>, body |-> b] :
        k1 \in {<<"a">>, <<"b">>}, k2 \in {<<"b">>, <<"c", SP>>, <<"__proto__">>},
        v1 \in {<<"a">>, <<"a", SP>>, <<COLON>>}, v2 \in {<<"b">>, <<NL>>},
        b \in {<<>>, <<NL, NL>>}}

\* A word of the protocol as a text, and a text read as a JS string.
Text(s) == IF s = "" THEN <<>> ELSE <<s>>

RECURSIVE Str(_)
Str(t) == IF t = <<>> THEN "" ELSE t[1] \o Str(Tail(t))

\* A frame of Frames as the encoder takes it, and a frame of parseFrames as
\* handleFrame reads it.
AsTextFrame(f) ==
    [command |-> Text(f.command),
     headers |-> [i \in DOMAIN f.headers |->
                     <<Text(f.headers[i][1]), Text(f.headers[i][2])>>],
     body |-> Text(f.body)]

AsFrame(f) ==
    [command |-> Str(f.command),
     headers |-> [i \in DOMAIN f.headers |->
                     <<Str(f.headers[i][1]), Str(f.headers[i][2])>>],
     body |-> Str(f.body)]

\* The frames sent in pairs: frames of the protocol, and frames whose body
\* holds the separators of the header block.
PairFrames ==
    {AsTextFrame(f) : f \in
        {Frame("CONNECT", <<>>, ""),
         Frame("SUBSCRIBE", Hdr("id", "s1") \o Hdr("destination", "d1"), ""),
         Frame("SUBSCRIBE", Hdr("id", "s1") \o Hdr("destination", "d2"), ""),
         Frame("UNSUBSCRIBE", Hdr("id", "s1"), ""),
         Frame("SEND", Hdr("destination", "d1"), "m1"),
         Frame("DISCONNECT", <<>>, "")}}
    \cup {[command |-> <<"a">>, headers |-> <<>>, body |-> <<NL, NL, "a">>],
          [command |-> <<"a", SP, "a">>, headers |-> << <<<<"a">>, <<COLON>>>> >>,
           body |-> <<NL>>]}

\* What a client puts after a frame: nothing, an empty segment, or a segment
\* that is a bare newline.
GapTexts == {<<>>, <<NUL>>, <<NL, NUL>>}

\* The deliveries followed through the codec: one frame, or two frames with
\* a gap text after each.
IsCodecInput(input) ==
    \/ \E f \in TwoHeaderFrames : input = OneFrame(f)
    \/ \E f1 \in PairFrames, f2 \in PairFrames, g1 \in GapTexts, g2 \in GapTexts :
          input = [frames |-> <<f1, f2>>, gaps |-> <<g1, g2>>]
    \/ IsBudgetInput(input)

\* The text of a delivery: the encodings of its frames, each followed by its
\* gap text.
RECURSIVE deliveryText(_, _)
deliveryText(input, i) ==
    IF i > Len(input.frames) THEN <<>>
    ELSE frameText(input.frames[i].command, input.frames[i].headers,
                   input.frames[i].body)
            \o input.gaps[i] \o deliveryText(input, i + 1)

\* The loop of the message callback (lines 239-241): handleFrame on each
\* frame in turn.
RECURSIVE dispatchFrames(_, _, _, _)
dispatchFrames(st, ws, frames, i) ==
    IF i > Len(frames) THEN st
    ELSE dispatchFrames(handleFrame([st EXCEPT !.dispatched = @ + 1], ws,
                                    AsFrame(frames[i])),
                        ws, frames, i + 1)

RECURSIVE PhaseAfterAll(_, _, _)
PhaseAfterAll(phase, frames, i) ==
    IF i > Len(frames) THEN phase
    ELSE PhaseAfterAll(PhaseAfter(phase, AsFrame(frames[i])), frames, i + 1)

RECURSIVE SubscribedAfterAll(_, _, _, _)
SubscribedAfterAll(subscribed, c, frames, i) ==
    IF i > Len(frames) THEN subscribed
    ELSE SubscribedAfterAll(SubscribedAfter(subscribed, c, AsFrame(frames[i])),
                            c, frames, i + 1)

InitCodec ==
    /\ InitBinding("native")
    /\ IsCodecInput(toEncode)
    /\ payload = <<>>
    /\ parsed = <<>>
    /\ codecStage = "input"

\* The client builds the text of its delivery with the encoder.
Encode ==
    /\ codecStage = "input"
    /\ payload' = deliveryText(toEncode, 1)
    /\ codecStage' = "encoded"
    /\ UNCHANGED <<binding, transport, subscriptionsByConn,
                   subscribersByDestination, sent, uuidCount, dispatched,
                   disconnectPhase, everSubscribed, toEncode, parsed>>

\* ws.on('message') on the whole delivery (lines 237-242): parseFrames, then
\* handleFrame on every frame, in one run of the callback.
Data(c) ==
    /\ codecStage = "encoded"
    /\ CanDispatch(c)
    /\ \E frames \in {parseFrames(payload)} :
        /\ parsed' = frames
        /\ \E st \in {dispatchFrames(State, c, frames, 1)} :
               /\ transport' = st.transport
               /\ subscriptionsByConn' = st.subscriptionsByConn
               /\ subscribersByDestination' = st.subscribersByDestination
               /\ sent' = st.sent
               /\ uuidCount' = st.uuidCount
               /\ dispatched' = st.dispatched
        /\ disconnectPhase' =
              [disconnectPhase EXCEPT ![c] = PhaseAfterAll(@, frames, 1)]
        /\ everSubscribed' = SubscribedAfterAll(everSubscribed, c, frames, 1)
    /\ codecStage' = "handled"
    /\ UNCHANGED <<binding, toEncode, payload>>

NextCodec ==
    \/ Encode
    \/ \E c \in Conns : Connection(c)
    \/ \E c \in Conns : Data(c)

SpecCodec == InitCodec /\ [][NextCodec]_vars

\* ----------------------------------------------------- reading the indices
\* The connection index maps (c, s) to d.
InConnIndex(st, c, s, d) ==
    /\ MapHas(st.subscriptionsByConn, c)
    /\ MapGet(MapGet(st.subscriptionsByConn, c), s) = d

\* The destination index entry for d holds s in the subId set of c.
InDestIndex(st, c, s, d) ==
    /\ MapHas(st.subscribersByDestination, d)
    /\ MapHas(MapGet(st.subscribersByDestination, d), c)
    /\ s \in SetElems(MapGet(MapGet(st.subscribersByDestination, d), c))

\* The (connection, subId, destination) triples of the two indices.
ConnPairs(st) ==
    {p \in Conns \X SubIds \X Dests : InConnIndex(st, p[1], p[2], p[3])}

DestPairs(st) ==
    {p \in Conns \X SubIds \X Dests : InDestIndex(st, p[1], p[2], p[3])}

\* The send calls an operation made: those of st1 that st0 does not have.
Emitted(st0, st1) == SubSeq(st1.sent, Len(st0.sent) + 1, Len(st1.sent))

\* The state in which handleFrame runs on the next dispatched frame.
AtDispatch == [State EXCEPT !.dispatched = @ + 1]

SameIndices(st0, st1) ==
    /\ st0.subscriptionsByConn = st1.subscriptionsByConn
    /\ st0.subscribersByDestination = st1.subscribersByDestination

IsMessage(call, c, s, d) ==
    /\ call.command = "MESSAGE"
    /\ call.to = c
    /\ MapGet(call.headers, "subscription") = s
    /\ MapGet(call.headers, "destination") = d

\* ------------------------------------------------------------------ C1
\* C1: in every reachable state the connection index maps (c, s) to d if and
\* only if the destination index entry for d holds s in the subId set of c.
C1_IndexConsistency == ConnPairs(State) = DestPairs(State)

\* ------------------------------------------------------------------ C2
\* C2: a step that changes the destination of (c, s) in the connection index
\* from d1 to another destination leaves no (c, s) in the destination index
\* entry of d1, so that a Broadcast to d1 after it sends c no MESSAGE frame
\* with subscription header s.
C2_ResubscribeOverwrites ==
    [][\A c \in Conns, s \in SubIds, d1 \in Dests :
         (/\ InConnIndex(State, c, s, d1)
          /\ \E d2 \in Dests \ {d1} : InConnIndex(State', c, s, d2))
         => /\ ~InDestIndex(State', c, s, d1)
            /\ \A b \in Bodies :
                 \A out \in {Emitted(State', broadcast(State', d1, b))} :
                     \A i \in DOMAIN out : ~IsMessage(out[i], c, s, d1)]_vars

\* ------------------------------------------------------------------ C3
\* The (connection, subId) pairs the destination index registers for d whose
\* transport is open.
OpenSubscribers(st, d) ==
    {p \in Conns \X SubIds : InDestIndex(st, p[1], p[2], d) /\ IsOpen(st, p[1])}

\* C3: in every reachable state in which a SEND can be dispatched,
\* Broadcast(d, b) makes exactly one send call
\* for each (connection, subId) pair registered for d whose transport is open
\* and no other: a MESSAGE to that connection with headers subscription =
\* subId and destination = d and body b.
C3_FanOut ==
    (\E c \in Conns : CanDispatch(c)) =>
    \A d \in Dests, b \in Bodies :
        \E out \in {Emitted(State, broadcast(State, d, b))},
           subs \in {OpenSubscribers(State, d)} :
            /\ Len(out) = Cardinality(subs)
            /\ \A p \in subs :
                 \E i \in DOMAIN out : IsMessage(out[i], p[1], p[2], d)
            /\ \A i \in DOMAIN out :
                 /\ out[i].command = "MESSAGE"
                 /\ out[i].body = b
                 /\ MapGet(out[i].headers, "destination") = d
                 /\ <<out[i].to, MapGet(out[i].headers, "subscription")>> \in subs

\* C3 witness: a dispatched SEND sent one connection two MESSAGE frames under
\* two subscription ids, and sent a connection with no subscription nothing.
C3_Witness ==
    \E i, j \in DOMAIN sent :
        /\ i < j
        /\ sent[i].command = "MESSAGE" /\ sent[j].command = "MESSAGE"
        /\ sent[i].to = sent[j].to
        /\ sent[i].ev = sent[j].ev
        /\ MapGet(sent[i].headers, "subscription")
              # MapGet(sent[j].headers, "subscription")
        /\ \E c \in Conns : transport[c] = "open" /\ \A k \in DOMAIN sent : sent[k].to # c

\* ------------------------------------------------------------------ C4
\* C4: in every reachable state, every call of a transport's send was made
\* while that transport was open.
C4_NoSendOnClosedTransport == \A i \in DOMAIN sent : sent[i].open

\* ------------------------------------------------------------------ C5
\* A header that is missing or empty, in the words of the claim.
MissingOrEmpty(v) == v = undefined \/ v = ""

IsMalformedSubscribe(f) ==
    /\ f.command = "SUBSCRIBE"
    /\ MissingOrEmpty(Header(f, "id")) \/ MissingOrEmpty(Header(f, "destination"))

IsWellFormedSubscribe(f) ==
    /\ f.command = "SUBSCRIBE"
    /\ ~MissingOrEmpty(Header(f, "id")) /\ ~MissingOrEmpty(Header(f, "destination"))

MalformedSubscribes == {f \in Frames : IsMalformedSubscribe(f)}

WellFormedSubscribes == {f \in Frames : IsWellFormedSubscribe(f)}

IsErrorReply(call, c) ==
    /\ call.command = "ERROR"
    /\ call.to = c
    /\ MapHas(call.headers, "message")

\* The state after connection c dispatches SUBSCRIBE with no header at all.
AfterBareSubscribe(c) == handleFrame(AtDispatch, c, Frame("SUBSCRIBE", <<>>, ""))

\* What C5 says of a malformed SUBSCRIBE besides the number of frames: every
\* malformed SUBSCRIBE has the effect of the bare one, the frames sent are
\* ERROR frames with a message header to the sender, the indices and the
\* transport are as before, and a well-formed SUBSCRIBE dispatched next is
\* registered in both indices.
C5_Rest(c) ==
    \E st1 \in {AfterBareSubscribe(c)} :
    \E out \in {Emitted(AtDispatch, st1)} :
        /\ \A f \in MalformedSubscribes : handleFrame(AtDispatch, c, f) = st1
        /\ \A i \in DOMAIN out : IsErrorReply(out[i], c)
        /\ SameIndices(AtDispatch, st1)
        /\ st1.transport = transport
        /\ \A g \in WellFormedSubscribes :
             \E st2 \in {handleFrame([st1 EXCEPT !.dispatched = @ + 1], c, g)} :
                 /\ InConnIndex(st2, c, Header(g, "id"), Header(g, "destination"))
                 /\ InDestIndex(st2, c, Header(g, "id"), Header(g, "destination"))

\* C5 as claimed: a SUBSCRIBE whose id or destination header is missing or
\* empty makes the server send exactly one ERROR frame, to the sender only,
\* leaves the indices unchanged and does not close the connection, and a
\* later well-formed SUBSCRIBE is still accepted.
C5_SubscribePrecondition ==
    \A c \in Conns : CanDispatch(c) =>
        /\ Len(Emitted(AtDispatch, AfterBareSubscribe(c))) = 1
        /\ C5_Rest(c)

\* C5 as amended: at most one ERROR frame is sent, to the sender only, and
\* exactly one whenever the sender's transport is open; in the native binding
\* none is sent to a sender whose transport is not open. The rest as claimed.
C5_SubscribePreconditionWhileOpen ==
    \A c \in Conns : CanDispatch(c) =>
        \E n \in {Len(Emitted(AtDispatch, AfterBareSubscribe(c)))} :
            /\ n <= 1
            /\ transport[c] = "open" => n = 1
            /\ (binding = "native" /\ transport[c] # "open") => n = 0
            /\ C5_Rest(c)

\* C5 witness: a connection was sent an ERROR frame and holds a subscription.
C5_Witness ==
    \E i \in DOMAIN sent :
        /\ sent[i].command = "ERROR"
        /\ MapHas(subscriptionsByConn, sent[i].to)
        /\ transport[sent[i].to] = "open"

\* ------------------------------------------------------------------ C6
\* C6: from every reachable state, after cleanupConnection(c) the connection
\* is a key neither of the connection index nor of any destination's
\* subscriber map, and a second cleanupConnection(c) changes nothing.
C6_CleanupIdempotent ==
    \A c \in Conns :
        \E st1 \in {cleanupConnection(State, c)} :
            /\ ~MapHas(st1.subscriptionsByConn, c)
            /\ \A i \in DOMAIN st1.subscribersByDestination :
                 ~MapHas(st1.subscribersByDestination[i][2], c)
            /\ cleanupConnection(st1, c) = st1

\* ------------------------------------------------------------------ C7
\* C7 as claimed: once the DISCONNECT of a connection has been dispatched, the
\* step of its close event changes neither index.
C7_CloseAfterDisconnect ==
    [][\A c \in Conns :
         (disconnectPhase[c] # "none" /\ transport[c] # "closed"
             /\ transport'[c] = "closed")
         => SameIndices(State, State')]_vars

\* C7 as amended: the same, provided the connection registered no SUBSCRIBE
\* after its last DISCONNECT was dispatched.
C7_CloseAfterDisconnectNoLateSubscribe ==
    [][\A c \in Conns :
         (disconnectPhase[c] = "disconnected" /\ transport[c] # "closed"
             /\ transport'[c] = "closed")
         => SameIndices(State, State')]_vars

\* C7 witness: a connection whose DISCONNECT was dispatched, with no SUBSCRIBE
\* after it, has had its close event, while the connection index still holds
\* a subscription of another connection.
C7_Witness ==
    \E c \in Conns :
        /\ transport[c] = "closed"
        /\ disconnectPhase[c] = "disconnected"
        /\ dispatched >= 3
        /\ subscriptionsByConn # <<>>

\* ------------------------------------------------------------------ C8
\* The registrations of connection c in the two indices: whether it is a key
\* of the connection index and with which Map, and under every destination
\* whether it is a key of the subscriber Map and with which subId Set.
RegistrationsOf(st, c) ==
    <<MapHas(st.subscriptionsByConn, c),
      IF MapHas(st.subscriptionsByConn, c)
      THEN MapGet(st.subscriptionsByConn, c) ELSE <<>>,
      [d \in Dests |->
          IF /\ MapHas(st.subscribersByDestination, d)
             /\ MapHas(MapGet(st.subscribersByDestination, d), c)
          THEN <<TRUE, MapGet(MapGet(st.subscribersByDestination, d), c)>>
          ELSE <<FALSE, <<>>>>]>>

\* The states a SUBSCRIBE, UNSUBSCRIBE or DISCONNECT frame of connection a, or
\* its close event, can lead to from the current state.
\* The SUBSCRIBE, UNSUBSCRIBE and DISCONNECT frames, well-formed or not.
RegistryFrames ==
    {f \in Frames : f.command \in {"SUBSCRIBE", "UNSUBSCRIBE", "DISCONNECT"}}

\* What C8 says of the state st1 that an operation of another connection
\* leads to, for connection b.
C8_Untouched(st1, b, before) ==
    /\ RegistrationsOf(st1, b) = before
    /\ \A s \in SubIds, d \in Dests :
         (InDestIndex(State, b, s, d) /\ IsOpen(st1, b)) =>
             \E out \in {Emitted(st1, broadcast(st1, d, "m1"))} :
                 \E i \in DOMAIN out : IsMessage(out[i], b, s, d)

\* C8: a SUBSCRIBE, UNSUBSCRIBE, DISCONNECT or close of connection a leaves
\* the registrations of every other connection b as they were in both
\* indices, and a Broadcast after it still sends b, if its transport is open,
\* a MESSAGE for each of its subscriptions.
C8_SubIdsScopedPerConnection ==
    \A a \in Conns : CanDispatch(a) =>
        \A b \in Conns \ {a} :
            \E before \in {RegistrationsOf(State, b)} :
                /\ \A f \in RegistryFrames :
                     \E st1 \in {handleFrame(AtDispatch, a, f)} :
                         C8_Untouched(st1, b, before)
                /\ \E st1 \in {cleanupConnection(State, a)} :
                     C8_Untouched(st1, b, before)

\* C8 witness: two connections were sent MESSAGE frames under the same
\* subscription id, one of them has been closed and cleaned up since, and the
\* other still holds that id in both indices.
C8_Witness ==
    \E i, j \in DOMAIN sent :
        /\ sent[i].command = "MESSAGE" /\ sent[j].command = "MESSAGE"
        /\ sent[i].to # sent[j].to
        /\ MapGet(sent[i].headers, "subscription")
              = MapGet(sent[j].headers, "subscription")
        /\ transport[sent[i].to] = "closed"
        /\ \E d \in Dests :
             /\ InConnIndex(State, sent[j].to, MapGet(sent[j].headers, "subscription"), d)
             /\ InDestIndex(State, sent[j].to, MapGet(sent[j].headers, "subscription"), d)

\* ------------------------------------------------------------------ C9
\* C9: the frames sent to one connection are in the order in which the frames
\* that caused them were dispatched.
C9_PerConnectionOrder ==
    \A i, j \in DOMAIN sent :
        (i < j /\ sent[i].to = sent[j].to) => sent[i].ev <= sent[j].ev

\* C9 witness: one connection was sent a reply and, for a frame dispatched
\* later, a MESSAGE, or two MESSAGE frames for two dispatched SEND frames.
C9_Witness ==
    \E i, j \in DOMAIN sent :
        /\ i < j
        /\ sent[i].to = sent[j].to
        /\ sent[i].ev < sent[j].ev
        /\ sent[j].command = "MESSAGE"
        /\ sent[i].command \in {"MESSAGE", "CONNECTED", "ERROR"}

\* ------------------------------------------------------------------ C10
\* C10: a SEND to a destination that is no key of the destination index makes
\* no send call and leaves both indices, and everything else, unchanged.
C10_NoSubscriberBroadcast ==
    \A d \in Dests : ~MapHas(subscribersByDestination, d) =>
        \A c \in Conns, b \in Bodies : CanDispatch(c) =>
            handleFrame(AtDispatch, c, Frame("SEND", Hdr("destination", d), b))
                = AtDispatch

\* C10 witness: two or more frames were dispatched and none of them caused a
\* send call, one destination has subscribers, another has no entry, and a
\* connection can send.
C10_Witness ==
    /\ \E d \in Dests : ~MapHas(subscribersByDestination, d)
    /\ \E d \in Dests : MapHas(subscribersByDestination, d)
    /\ \E c \in Conns : CanDispatch(c)
    /\ dispatched >= 2
    /\ sent = <<>>

\* ------------------------------------------------------------------ C11
\* The message-id header of a send call.
MessageId(call) == MapGet(call.headers, "message-id")

\* C11: in every reachable state, every MESSAGE frame sent carries a
\* message-id header, and no two MESSAGE frames sent carry the same one.
C11_FreshMessageIds ==
    \A i, j \in DOMAIN sent :
        (sent[i].command = "MESSAGE" /\ sent[j].command = "MESSAGE") =>
            /\ MapHas(sent[i].headers, "message-id")
            /\ i # j => MessageId(sent[i]) # MessageId(sent[j])

\* C11 witness: one SEND sent MESSAGE frames to two connections, with two
\* message ids.
C11_Witness ==
    \E i, j \in DOMAIN sent :
        /\ sent[i].command = "MESSAGE" /\ sent[j].command = "MESSAGE"
        /\ sent[i].ev = sent[j].ev
        /\ sent[i].to # sent[j].to
        /\ MessageId(sent[i]) # MessageId(sent[j])

\* ------------------------------------------------------------------ C12
\* The frames C12 calls silently ignored when connection c sends them: a SEND
\* without destination header, an UNSUBSCRIBE without id header or with an id
\* that c does not hold, a frame with an unrecognized command.
IsIgnoredFrame(c, f) ==
    \/ f.command = "SEND" /\ ~MapHas(f.headers, "destination")
    \/ /\ f.command = "UNSUBSCRIBE"
       /\ \/ ~MapHas(f.headers, "id")
          \/ \A d \in Dests : ~InConnIndex(State, c, Header(f, "id"), d)
    \/ f.command = "ACK"

UnsubscribeFrames == {f \in Frames : f.command = "UNSUBSCRIBE"}

\* C12: in every reachable state in which connection c can dispatch a frame,
\* a silently ignored frame makes no send call and leaves both indices (and
\* the transports) as they are, and no UNSUBSCRIBE frame makes a send call.
C12_SilentlyIgnored ==
    \A c \in Conns : CanDispatch(c) =>
        /\ \A f \in Frames : IsIgnoredFrame(c, f) =>
               handleFrame(AtDispatch, c, f) = AtDispatch
        /\ \A f \in UnsubscribeFrames :
               Emitted(AtDispatch, handleFrame(AtDispatch, c, f)) = <<>>

\* C12 witness: a connection that can dispatch holds one subscription id and
\* not the other (an UNSUBSCRIBE of the first removes a subscription, one of
\* the second is ignored), and the frames dispatched so far caused no send.
C12_Witness ==
    \E c \in Conns :
        /\ CanDispatch(c)
        /\ \E d \in Dests : InConnIndex(State, c, "s1", d)
        /\ \A d \in Dests : ~InConnIndex(State, c, "s2", d)
        /\ dispatched >= 2
        /\ sent = <<>>

\* ------------------------------------------------------------------ C13
ConnectFrames == {f \in Frames : f.command \in {"CONNECT", "STOMP"}}

IsConnectedReply(call, c) ==
    /\ call.command = "CONNECTED"
    /\ call.to = c
    /\ call.headers = << <<"version", "1.2">> >>

\* What C13 says besides the number of CONNECTED frames: the frames a CONNECT
\* or STOMP causes are CONNECTED frames with version 1.2 to the sender, and
\* it changes no index; a well-formed SUBSCRIBE makes no send call and is
\* registered in both indices, in a state where the connection has been sent
\* a CONNECTED frame as in one where it has not.
C13_Rest(c) ==
    /\ \A f \in ConnectFrames :
         \E st1 \in {handleFrame(AtDispatch, c, f)} :
             /\ \A i \in DOMAIN Emitted(AtDispatch, st1) :
                    IsConnectedReply(Emitted(AtDispatch, st1)[i], c)
             /\ SameIndices(AtDispatch, st1)
    /\ \A g \in WellFormedSubscribes :
         \E st1 \in {handleFrame(AtDispatch, c, g)} :
             /\ Emitted(AtDispatch, st1) = <<>>
             /\ InConnIndex(st1, c, Header(g, "id"), Header(g, "destination"))
             /\ InDestIndex(st1, c, Header(g, "id"), Header(g, "destination"))

\* The number of send calls a CONNECT or STOMP frame of connection c causes.
ConnectReplies(c, f) == Len(Emitted(AtDispatch, handleFrame(AtDispatch, c, f)))

\* C13 as claimed: a CONNECT or STOMP frame makes the server send exactly one
\* CONNECTED frame with version 1.2, to the sender only, and changes no
\* index; a well-formed SUBSCRIBE sends nothing and is registered whether or
\* not the connection has sent CONNECT before.
C13_HandshakeAndSilentSubscribe ==
    \A c \in Conns : CanDispatch(c) =>
        /\ \A f \in ConnectFrames : ConnectReplies(c, f) = 1
        /\ C13_Rest(c)

\* C13 as amended: at most one CONNECTED frame is sent, exactly one whenever
\* the sender's transport is open; in the native binding none is sent to a
\* sender whose transport is not open. The rest as claimed.
C13_HandshakeWhileOpen ==
    \A c \in Conns : CanDispatch(c) =>
        /\ \A f \in ConnectFrames :
             \E n \in {ConnectReplies(c, f)} :
                 /\ n <= 1
                 /\ transport[c] = "open" => n = 1
                 /\ (binding = "native" /\ transport[c] # "open") => n = 0
        /\ C13_Rest(c)

\* C13 witness: one connection was sent a CONNECTED frame and holds a
\* subscription, another holds a subscription and was never sent one.
C13_Witness ==
    \E a, b \in Conns :
        /\ \E i \in DOMAIN sent : sent[i].command = "CONNECTED" /\ sent[i].to = a
        /\ \A i \in DOMAIN sent : sent[i].to # b
        /\ MapHas(subscriptionsByConn, a)
        /\ MapHas(subscriptionsByConn, b)

\* ------------------------------------------------------------------ C16
\* C16: in every reachable state, a connection is a key of the connection
\* index only if it holds at least one subscription there (and it holds none
\* when it is no key).
C16_ConnIndexPruning ==
    \A c \in Conns :
        MapHas(subscriptionsByConn, c) => MapGet(subscriptionsByConn, c) # <<>>

\* ------------------------------------------------------------------ C17
\* C17: in every reachable state, every destination key of the destination
\* index has a non-empty subscriber map in which every connection has a
\* non-empty subId set; and a step that leaves a destination that was a key
\* without any (connection, subId) pair leaves it no key.
C17_DestIndexPruning ==
    /\ [](\A i \in DOMAIN subscribersByDestination :
            /\ subscribersByDestination[i][2] # <<>>
            /\ \A k \in DOMAIN subscribersByDestination[i][2] :
                 subscribersByDestination[i][2][k][2] # <<>>)
    /\ [][\A d \in Dests :
            (/\ MapHas(subscribersByDestination, d)
             /\ \A p \in DestPairs(State') : p[3] # d)
            => ~MapHas(subscribersByDestination', d)]_vars

\* C17 witness: a connection was sent a MESSAGE for a destination and has
\* unsubscribed since (it is still open and has sent no DISCONNECT), and that
\* destination is no key of the destination index any more.
C17_Witness ==
    \E i \in DOMAIN sent :
        /\ sent[i].command = "MESSAGE"
        /\ ~MapHas(subscribersByDestination, MapGet(sent[i].headers, "destination"))
        /\ transport[sent[i].to] = "open"
        /\ disconnectPhase[sent[i].to] = "none"

\* ------------------------------------------------------------------ C18
\* The subIds connection c owns in the connection index.
OwnedSubIds(st, c) ==
    IF MapHas(st.subscriptionsByConn, c)
    THEN MapKeys(MapGet(st.subscriptionsByConn, c)) ELSE {}

\* The orders in which the elements of S can be taken, once each.
Orders(S) ==
    {o \in [1..Cardinality(S) -> S] : \A i, j \in DOMAIN o : o[i] = o[j] => i = j}

\* removeSubscription(c, s) for the subIds s of order, from the i-th on.
RECURSIVE RemoveEach(_, _, _, _)
RemoveEach(st, c, order, i) ==
    IF i > Len(order) THEN st
    ELSE RemoveEach(removeSubscription(st, c, order[i]), c, order, i + 1)

\* C18: from every reachable state and for every connection c,
\* cleanupConnection(c) leaves the two indices as removeSubscription(c, s)
\* called once for every subId s that c owns leaves them, in any order.
C18_CleanupMatchesRemoves ==
    \A c \in Conns :
        \E st1 \in {cleanupConnection(State, c)} :
            \A order \in Orders(OwnedSubIds(State, c)) :
                SameIndices(st1, RemoveEach(State, c, order, 1))

\* C18 witness: a connection owns two subIds with two destinations, and
\* shares one of the destinations with another connection.
C18_Witness ==
    \E c, b \in Conns, d, e \in Dests :
        /\ b # c /\ e # d
        /\ InConnIndex(State, c, "s1", d) /\ InDestIndex(State, c, "s1", d)
        /\ InConnIndex(State, c, "s2", e) /\ InDestIndex(State, c, "s2", e)
        /\ \E s \in SubIds : InConnIndex(State, b, s, d) /\ InDestIndex(State, b, s, d)

\* ------------------------------------------------------------------ C19
\* C19: from every reachable state in which connection c can dispatch a
\* frame, after its UNSUBSCRIBE with id s a SEND to any destination sends c
\* no MESSAGE frame with subscription header s.
C19_UnsubscribeStopsDelivery ==
    \A c \in Conns : CanDispatch(c) =>
        \A s \in SubIds :
            \E st1 \in {handleFrame(AtDispatch, c,
                                    Frame("UNSUBSCRIBE", Hdr("id", s), ""))} :
                \A d \in Dests :
                    \E out \in {Emitted(st1, broadcast(st1, d, "m1"))} :
                        \A i \in DOMAIN out :
                            ~(/\ out[i].command = "MESSAGE"
                              /\ out[i].to = c
                              /\ MapGet(out[i].headers, "subscription") = s)

\* ------------------------------------------------------------------ C20
\* C20: in every reachable state, every MESSAGE frame sent to connection c
\* with headers subscription = s and destination = d was sent after c
\* dispatched a SUBSCRIBE with id s and destination d; and from every
\* reachable state in which a connection can dispatch a frame, only a SEND
\* frame causes MESSAGE frames, each with the destination header and the
\* body of that SEND, and a SEND changes neither index.
C20_NoDeliveryWithoutSubscription ==
    /\ \A i \in DOMAIN sent : sent[i].command = "MESSAGE" =>
         <<sent[i].to, MapGet(sent[i].headers, "subscription"),
           MapGet(sent[i].headers, "destination")>> \in everSubscribed
    /\ \A c \in Conns : CanDispatch(c) =>
         \A f \in Frames :
             \E st1 \in {handleFrame(AtDispatch, c, f)} :
                 /\ \A i \in DOMAIN Emitted(AtDispatch, st1) :
                      Emitted(AtDispatch, st1)[i].command = "MESSAGE" =>
                          /\ f.command = "SEND"
                          /\ MapGet(Emitted(AtDispatch, st1)[i].headers, "destination")
                                = Header(f, "destination")
                          /\ Emitted(AtDispatch, st1)[i].body = f.body
                 /\ f.command = "SEND" => SameIndices(AtDispatch, st1)

\* C20 witness: a connection was sent a MESSAGE for a subscription it had
\* registered, and holds that subscription in neither index any more.
C20_Witness ==
    \E i \in DOMAIN sent :
        /\ sent[i].command = "MESSAGE"
        /\ sent[i].body \in Bodies
        /\ <<sent[i].to, MapGet(sent[i].headers, "subscription"),
             MapGet(sent[i].headers, "destination")>> \in everSubscribed
        /\ ~InDestIndex(State, sent[i].to, MapGet(sent[i].headers, "subscription"),
                        MapGet(sent[i].headers, "destination"))
        /\ ~MapHas(subscriptionsByConn, sent[i].to)

\* ------------------------------------------------------------------ C14
\* The delivery followed is one frame and nothing else.
SingleFrameInput == Len(toEncode.frames) = 1 /\ toEncode.gaps = << <<>> >>

Has(t, ch) == \E i \in DOMAIN t : t[i] = ch

\* The header mapping as a set of <<key, value>> pairs, values trimmed.
TrimmedPairs(headers) ==
    {<<headers[i][1], trim(headers[i][2])>> : i \in DOMAIN headers}

DistinctKeys(headers) ==
    \A i, j \in DOMAIN headers : headers[i][1] = headers[j][1] => i = j

\* frames is exactly one frame, with the command of f, a header mapping equal
\* to that of f after trimming the values, and the body of f.
DecodesTo(frames, f) ==
    /\ Len(frames) = 1
    /\ frames[1].command = f.command
    /\ DistinctKeys(frames[1].headers)
    /\ TrimmedPairs(frames[1].headers) = TrimmedPairs(f.headers)
    /\ frames[1].body = f.body

\* The inputs C14 names: a header mapping with non-empty keys and values and
\* no newline in keys, a body without NUL, any command.
C14_Claimed(f) ==
    /\ DistinctKeys(f.headers)
    /\ \A i \in DOMAIN f.headers :
         /\ f.headers[i][1] # <<>> /\ f.headers[i][2] # <<>>
         /\ ~Has(f.headers[i][1], NL)
    /\ ~Has(f.body, NUL)

\* The inputs of C14 as amended: besides, the command is non-empty, holds no
\* newline and no NUL and has no whitespace at its ends; a key holds no
\* colon and no NUL, has no whitespace at its ends and is not __proto__; a
\* value holds no newline and no NUL.
C14_Restricted(f) ==
    /\ C14_Claimed(f)
    /\ f.command # <<>> /\ trim(f.command) = f.command
    /\ ~Has(f.command, NL) /\ ~Has(f.command, NUL)
    /\ \A i \in DOMAIN f.headers :
         /\ ~Has(f.headers[i][1], COLON) /\ ~Has(f.headers[i][1], NUL)
         /\ trim(f.headers[i][1]) = f.headers[i][1]
         /\ f.headers[i][1] # <<"__proto__">>
         /\ ~Has(f.headers[i][2], NL) /\ ~Has(f.headers[i][2], NUL)

\* C14 as claimed: parseFrames of the text the encoder builds from a command,
\* a header mapping and a body as C14 names them is exactly one frame with
\* that command, that header mapping after trimming the values, that body.
C14_RoundTrip ==
    (codecStage = "handled" /\ SingleFrameInput /\ C14_Claimed(toEncode.frames[1]))
        => DecodesTo(parsed, toEncode.frames[1])

\* C14 as amended: the same for the inputs of C14_Restricted.
C14_RoundTripOfTokens ==
    (codecStage = "handled" /\ SingleFrameInput /\ C14_Restricted(toEncode.frames[1]))
        => DecodesTo(parsed, toEncode.frames[1])

\* C14 witness: a frame with a header whose value is a colon has been
\* encoded, parsed and handled, and came out as one frame with that header.
C14_Witness ==
    /\ codecStage = "handled"
    /\ SingleFrameInput
    /\ C14_Restricted(toEncode.frames[1])
    /\ toEncode.frames[1].headers = << <<<<"a">>, <<COLON>>>> >>
    /\ Len(parsed) = 1
    /\ parsed[1].headers = toEncode.frames[1].headers

\* ------------------------------------------------------------------ C15
\* A frame as parseFrames makes them: an input of C14_Restricted whose header
\* values have no whitespace at their ends.
IsDecodedFrame(f) ==
    /\ C14_Restricted(f)
    /\ \A i \in DOMAIN f.headers : trim(f.headers[i][2]) = f.headers[i][2]

\* The state after handleFrame on the first frame of fs and then, if there is
\* a second, on the second.
HandledInOrder(st, c, fs) ==
    IF Len(fs) = 1
    THEN handleFrame([st EXCEPT !.dispatched = @ + 1], c, AsFrame(fs[1]))
    ELSE handleFrame(
             [handleFrame([st EXCEPT !.dispatched = @ + 1], c, AsFrame(fs[1]))
                 EXCEPT !.dispatched = @ + 1],
             c, AsFrame(fs[2]))

\* C15: the message callback, run on a delivery that is the encodings of
\* frames (as parseFrames makes them) each followed by nothing, by an empty
\* segment or by a bare-newline segment, parses exactly these frames in their
\* order and leaves the state that handleFrame on each of them in that order
\* leaves.
C15_MultiFrameDecode ==
    [][(/\ codecStage = "encoded" /\ codecStage' = "handled"
        /\ \A i \in DOMAIN toEncode.frames : IsDecodedFrame(toEncode.frames[i]))
       => /\ parsed' = toEncode.frames
          /\ \E c \in Conns :
               /\ CanDispatch(c)
               /\ State' = HandledInOrder(State, c, toEncode.frames)]_vars

\* C15 witness: a delivery of a SUBSCRIBE frame, a bare-newline segment, a
\* SEND frame and an empty segment has been handled, and the SEND found the
\* subscription of the SUBSCRIBE.
C15_Witness ==
    /\ codecStage = "handled"
    /\ Len(toEncode.frames) = 2
    /\ toEncode.gaps = << <<NL, NUL>>, <<NUL>> >>
    /\ parsed = toEncode.frames
    /\ parsed[1].command = <<"SUBSCRIBE">>
    /\ parsed[2].command = <<"SEND">>
    /\ \E i \in DOMAIN sent : sent[i].command = "MESSAGE" /\ sent[i].body = "m1"

====
